---------------------------- MODULE Spec2Model ----------------------------
(***************************************************************************)
(* State-machine model of the linux /dev/lcd driver of LCDproc             *)
(* (server/drivers/linux_devlcd.c): the text framebuffer, the backing      *)
(* store and the incremental flush, the custom-character (glyph) cache     *)
(* and the rendering mode that shares the eight glyph slots.               *)
(*                                                                         *)
(* Bytes are numbers 0..255.  A glyph is a tuple of cellheight rows, row 0 *)
(* of the C array being element 1 of the tuple.  Cells of the framebuffer  *)
(* and of the backing store are indexed row-major from 0, as in the C      *)
(* arrays.  The sink (FILE *fd) is modelled by `out', the sequence of      *)
(* commands written by the last operation.                                 *)
(*                                                                         *)
(* The specifications share the state and the actions.  Spec drives the    *)
(* flush engine: characters, filled blocks, clear, flush, the clock, and   *)
(* close followed by a new init in the same process.  SpecMode drives the  *)
(* rendering mode and the glyph slots: icons, bars, big numbers, clear     *)
(* and flush, under the default configuration.  SpecGlyph drives the       *)
(* glyph cache through set_char and flush.  SpecText drives strings,       *)
(* characters and the backlight together with one call of each mode.       *)
(* SpecLife drives init, with its failure paths, and close.  SpecBars      *)
(* drives the icons that leave the mode standard, followed by bars.        *)
(*                                                                         *)
(* lib_vbar_static, lib_hbar_static and lib_adv_bignum belong to the       *)
(* server (lcd_lib.c, adv_bignum.c), not to this driver: the bar helpers   *)
(* follow their promille-to-glyph mapping, the big-number helper uses      *)
(* stand-in glyph shapes and a stand-in digit table.                       *)
(***************************************************************************)
EXTENDS Integers, Sequences, FiniteSets, TLC

(***************************************************************************)
(* Bounds of the model.                                                    *)
(***************************************************************************)
\* steps (driver calls and clock ticks) in one run of Spec
MaxOps == 5
\* steps in one run of SpecMode
MaxDraws == 3
\* steps in one run of SpecGlyph
MaxDefs == 5
\* steps in one run of SpecText
MaxText == 3
\* steps in one run of SpecLife
MaxLife == 4

(***************************************************************************)
(* Program constants.                                                      *)
(***************************************************************************)
NUM_CCs == 8
CellHeight == 8
CellWidth == 5
Space == 32
Esc == 27
ArrowLeftCode == 27
ArrowRightCode == 26
\* PrivateData is calloc'ed and init never assigns lastline
lastline == FALSE

\* the resolved display geometries <<width, height>> init may configure
Sizes == {<<3, 2>>}

\* the values refreshdisplay and keepalivedisplay are configured with
RefreshIntervals == {0, 1, 2}
KeepaliveIntervals == {0, 1}

Modes == {"standard", "vbar", "hbar", "bignum", "icons"}

VARIABLES
    alive,              \* drvthis->private_data != NULL
    width, height,      \* p->width, p->height
    framebuf,           \* p->framebuf
    backingstore,       \* p->backingstore
    cc,                 \* p->cc[NUM_CCs]: [cache, clean]
    ccmode,             \* p->ccmode
    backlight_state,    \* p->backlight_state
    mem,                \* the blocks init acquires: the private data, the
                        \* two buffers and the sink; "none" (a NULL pointer),
                        \* "live", "freed", "twice" (freed a second time)
    device,             \* the display behind the sink: the character it
                        \* shows in every cell and the rows of the glyphs
                        \* defined to it
    doneFirstRefresh,   \* the function-static flag of linuxDevLcd_flush
    now,                \* what time(NULL) returns
    nextrefresh, refreshdisplay,
    nextkeepalive, keepalivedisplay,
    out,                \* what the last operation wrote to p->fd
    last,               \* the last driver call: its name, and of an icon
                        \* call the arguments and the result
    flushed,            \* the instance has been flushed since its init
    nops                \* driver calls made so far

vars == <<alive, width, height, framebuf, backingstore, cc, ccmode,
          backlight_state, mem, device, doneFirstRefresh, now, nextrefresh,
          refreshdisplay, nextkeepalive, keepalivedisplay, out, last, flushed,
          nops>>

Cells == 0 .. (width * height - 1)

(***************************************************************************)
(* Records of the sink.                                                    *)
(***************************************************************************)
Cmd(k, a, b, rows) == [k |-> k, a |-> a, b |-> b, rows |-> rows]
\* "\e[Lx%dy%d;"
linuxDevLcd_position(x, y) == Cmd("pos", x, y, <<>>)
\* fputc(*sp, p->fd)
PutByte(c) == Cmd("byte", c, 0, <<>>)
\* "\e[LG%0d" i, cellheight times "%02x", ";"
DefineGlyph(i, rows) == Cmd("glyph", i, 0, rows)
\* "\e[LI" "\e[Lc" "\e[Lb" "\e[2J" "\e[H" "\e[LD"
InitSequence == << Cmd("reinit", 0, 0, <<>>), Cmd("cursoroff", 0, 0, <<>>),
                   Cmd("blinkoff", 0, 0, <<>>), Cmd("cleardisplay", 0, 0, <<>>),
                   Cmd("home", 0, 0, <<>>), Cmd("displayon", 0, 0, <<>>) >>

\* the record of a call: prev is the call before it, forced is
\* refreshNow || keepaliveNow of a flush, first marks the first flush
\* since the instance was initialised, dat is the array or the text a
\* call was handed
Call(op, prev, x, y, icon, ret, forced, first) ==
    [op |-> op, prev |-> prev, x |-> x, y |-> y, icon |-> icon, ret |-> ret,
     forced |-> forced, first |-> first, dat |-> <<>>]

\* a call other than icon and flush
Plain(op) == Call(op, last.op, 0, 0, "", 0, FALSE, FALSE)

(***************************************************************************)
(* linuxDevLcd_init: the state a successful init leaves.                   *)
(***************************************************************************)
ZeroGlyph == [r \in 1..CellHeight |-> 0]
\* calloc(1, sizeof(PrivateData)): every cache row 0 and every clean flag 0
InitialCC == [i \in 0..(NUM_CCs - 1) |-> [cache |-> ZeroGlyph, clean |-> FALSE]]

(***************************************************************************)
(* The display as it reads what is written to the sink: "\e[2J" blanks it, *)
(* "\e[Lx%dy%d;" moves the cursor, a byte is shown at the cursor, which    *)
(* then moves one column right, "\e[LG..;" defines a glyph.                *)
(***************************************************************************)
\* the display after "\e[2J": dev with every cell a space
Blank(dev, size) ==
    [dev EXCEPT !.screen = [i \in 0..(size[1] * size[2] - 1) |-> Space]]

\* no glyph has been defined to the display
NoGlyphs == [i \in 0..(NUM_CCs - 1) |-> <<>>]

\* the display after the commands o[k..], the cursor at (cx, cy)
RECURSIVE DeviceReads(_, _, _, _, _)
DeviceReads(dev, o, k, cx, cy) ==
    IF k > Len(o)
    THEN dev
    ELSE IF o[k].k = "pos"
    THEN DeviceReads(dev, o, k + 1, o[k].a, o[k].b)
    ELSE IF o[k].k = "byte"
    THEN DeviceReads(IF cx < width /\ cy < height
                     THEN [dev EXCEPT !.screen[cy * width + cx] = o[k].a]
                     ELSE dev,
                     o, k + 1, cx + 1, cy)
    ELSE IF o[k].k = "glyph"
    THEN DeviceReads([dev EXCEPT !.cgram[o[k].a] = o[k].rows], o, k + 1, cx, cy)
    ELSE DeviceReads(dev, o, k + 1, cx, cy)

\* what a successful init has acquired
Acquired == [p |-> "live", framebuf |-> "live", backingstore |-> "live", fd |-> "live"]

InitDriver(size, refresh, keepalive) ==
    /\ alive' = TRUE
    /\ mem' = Acquired
    /\ device' = Blank(device, size)
    /\ backlight_state' = -1
    /\ width' = size[1]
    /\ height' = size[2]
    /\ framebuf' = [i \in 0..(size[1] * size[2] - 1) |-> Space]
    /\ backingstore' = [i \in 0..(size[1] * size[2] - 1) |-> 0]
    /\ cc' = InitialCC
    /\ ccmode' = "standard"
    /\ nextrefresh' = 0
    /\ refreshdisplay' = refresh
    /\ nextkeepalive' = 0
    /\ keepalivedisplay' = keepalive
    /\ out' = InitSequence
    /\ last' = Plain("init")
    /\ flushed' = FALSE

Init ==
    /\ alive = TRUE
    /\ \E size \in Sizes :
         /\ width = size[1]
         /\ height = size[2]
         /\ framebuf = [i \in 0..(size[1] * size[2] - 1) |-> Space]
         /\ backingstore = [i \in 0..(size[1] * size[2] - 1) |-> 0]
         /\ device = Blank([screen |-> <<>>, cgram |-> NoGlyphs], size)
    /\ cc = InitialCC
    /\ ccmode = "standard"
    /\ backlight_state = -1
    /\ mem = Acquired
    /\ doneFirstRefresh = FALSE
    /\ now = 1
    /\ nextrefresh = 0
    /\ refreshdisplay \in RefreshIntervals
    /\ nextkeepalive = 0
    /\ keepalivedisplay \in KeepaliveIntervals
    /\ out = InitSequence
    /\ last = Call("init", "", 0, 0, "", 0, FALSE, FALSE)
    /\ flushed = FALSE
    /\ nops = 0

(***************************************************************************)
(* linuxDevLcd_chr and linuxDevLcd_clear.                                  *)
(***************************************************************************)
\* the framebuffer after linuxDevLcd_chr(x, y, c), coordinates 1-based
ChrF(fb, x, y, c) ==
    LET c1 == IF c = Esc THEN Space ELSE c
        x0 == x - 1
        y0 == y - 1
    IN  IF x0 >= 0 /\ y0 >= 0 /\ x0 < width /\ y0 < height
        THEN [fb EXCEPT ![y0 * width + x0] = c1]
        ELSE fb

\* a clear that blanks the first row only
ClearF_FirstRowOnly(fb) == [i \in DOMAIN fb |-> IF i < width THEN Space ELSE fb[i]]

\* the framebuffer after memset(p->framebuf, ' ', width * height)
ClearF(fb) == [i \in DOMAIN fb |-> Space]

(***************************************************************************)
(* linuxDevLcd_string.  A text is the sequence of the bytes before the     *)
(* terminating NUL.                                                        *)
(***************************************************************************)
\* a loop that stores the bytes as they come
RECURSIVE StringLoop_NoSanitise(_, _, _, _, _)
StringLoop_NoSanitise(fb, x0, y0, text, i) ==
    IF i < Len(text) /\ x0 < width
    THEN StringLoop_NoSanitise(IF x0 >= 0 THEN [fb EXCEPT ![y0 * width + x0] = text[i + 1]]
                                          ELSE fb,
                               x0 + 1, y0, text, i + 1)
    ELSE fb

\* the loop from index i (0-based) on, x0 and y0 0-based
RECURSIVE StringLoop(_, _, _, _, _)
StringLoop(fb, x0, y0, text, i) ==
    IF i < Len(text) /\ x0 < width
    THEN LET c == IF text[i + 1] = Esc THEN Space ELSE text[i + 1]
         IN  StringLoop(IF x0 >= 0 THEN [fb EXCEPT ![y0 * width + x0] = c] ELSE fb,
                        x0 + 1, y0, text, i + 1)
    ELSE fb

\* a string that stops at the first character left of the left border
StringF_StopsLeft(fb, x, y, text) ==
    IF y - 1 < 0 \/ y - 1 >= height \/ x - 1 < 0
    THEN fb
    ELSE StringLoop(fb, x - 1, y - 1, text, 0)

\* the framebuffer after linuxDevLcd_string(x, y, text), coordinates 1-based
StringF(fb, x, y, text) ==
    IF y - 1 < 0 \/ y - 1 >= height
    THEN fb
    ELSE StringLoop(fb, x - 1, y - 1, text, 0)

(***************************************************************************)
(* linuxDevLcd_flush.                                                      *)
(***************************************************************************)
\* first loop of the row diff: x after skipping the equal leading cells
RECURSIVE FwdScan(_, _, _, _)
FwdScan(fb, bs, y, x) ==
    IF x <= width - 1 /\ fb[y * width + x] = bs[y * width + x]
    THEN FwdScan(fb, bs, y, x + 1)
    ELSE x

\* a row diff that does not skip the equal trailing cells
BackScan_NoSkip(fb, bs, y, sx, e) == IF sx <= e THEN e ELSE sx - 1

\* second loop: the column ep ends on, scanning back from e down to sx
RECURSIVE BackScan(_, _, _, _, _)
BackScan(fb, bs, y, sx, e) ==
    IF e >= sx /\ fb[y * width + e] = bs[y * width + e]
    THEN BackScan(fb, bs, y, sx, e - 1)
    ELSE e

\* the columns <<first, last>> the row loop sends; first > last: nothing
RowSpan(fb, bs, y, forced) ==
    IF forced
    THEN <<0, width - 1>>
    ELSE LET sx == FwdScan(fb, bs, y, 0)
         IN  <<sx, BackScan(fb, bs, y, sx, width - 1)>>

\* a row loop that never sets its drawing flag: a cursor position before
\* every byte
RowOut_PositionPerByte(fb, y, span) ==
    IF span[1] <= span[2]
    THEN [k \in 1..(2 * (span[2] - span[1] + 1)) |->
            IF k % 2 = 1
            THEN linuxDevLcd_position(span[1] + (k - 1) \div 2, y)
            ELSE PutByte(fb[y * width + span[1] + (k - 2) \div 2])]
    ELSE <<>>

\* what one row writes: the cursor position, then the bytes of the span
RowOut(fb, y, span) ==
    IF span[1] <= span[2]
    THEN <<linuxDevLcd_position(span[1], y)>> \o
         [k \in 1..(span[2] - span[1] + 1) |-> PutByte(fb[y * width + span[1] + k - 1])]
    ELSE <<>>

\* a backing store that misses the last cell of the span
RowStore_ShortByOne(fb, bs, y, span) ==
    [i \in DOMAIN bs |->
        IF i >= y * width + span[1] /\ i < y * width + span[2] THEN fb[i] ELSE bs[i]]

\* *sq = *sp for every cell of the span
RowStore(fb, bs, y, span) ==
    [i \in DOMAIN bs |->
        IF i >= y * width + span[1] /\ i <= y * width + span[2] THEN fb[i] ELSE bs[i]]

\* the loop over the rows from y on: [out, bs]
RECURSIVE FlushRows(_, _, _, _, _)
FlushRows(fb, bs, y, forced, acc) ==
    IF y >= height
    THEN [out |-> acc, bs |-> bs]
    ELSE LET span == RowSpan(fb, bs, y, forced)
         IN  FlushRows(fb, RowStore(fb, bs, y, span), y + 1, forced,
                       acc \o RowOut(fb, y, span))

\* a glyph loop that stops one slot early
FlushGlyphs_SkipsLast(ccv, i) ==
    [k \in 1..Cardinality({j \in i..(NUM_CCs - 2) : ~ccv[j].clean}) |->
        LET j == CHOOSE j \in i..(NUM_CCs - 2) :
                    /\ ~ccv[j].clean
                    /\ Cardinality({h \in i..j : ~ccv[h].clean}) = k
        IN  DefineGlyph(j, ccv[j].cache)]

\* the loop over the glyph slots from i on: the definitions written
RECURSIVE FlushGlyphs(_, _)
FlushGlyphs(ccv, i) ==
    IF i >= NUM_CCs
    THEN <<>>
    ELSE (IF ~ccv[i].clean THEN <<DefineGlyph(i, ccv[i].cache)>> ELSE <<>>)
         \o FlushGlyphs(ccv, i + 1)

\* a glyph loop that leaves the slots dirty
MarkClean_Forgotten(ccv) == ccv

\* p->cc[i].clean = 1 for every slot the loop wrote
MarkClean(ccv) == [i \in DOMAIN ccv |-> [ccv[i] EXCEPT !.clean = TRUE]]

\* one pass of the inner loop at column x of row y: the cursor position
\* before the first byte of the row, the byte, the backing-store cell
SendByte(fb, snap, y, x, drawing) ==
    [out |-> snap.out
               \o (IF ~drawing THEN <<linuxDevLcd_position(x, y)>> ELSE <<>>)
               \o <<PutByte(fb[y * width + x])>>,
     bs  |-> [snap.bs EXCEPT ![y * width + x] = fb[y * width + x]]]

\* the inner loop from column x to column e: acc gains what has been written
\* and the backing store after every pass
RECURSIVE SendSpan(_, _, _, _, _, _)
SendSpan(fb, y, x, e, drawing, acc) ==
    IF x > e
    THEN acc
    ELSE SendSpan(fb, y, x + 1, e, TRUE,
                  Append(acc, SendByte(fb, acc[Len(acc)], y, x, drawing)))

\* the row loop from row y on, pass by pass
RECURSIVE SendRows(_, _, _, _)
SendRows(fb, y, forced, acc) ==
    IF y >= height
    THEN acc
    ELSE LET span == RowSpan(fb, acc[Len(acc)].bs, y, forced)
         IN  SendRows(fb, y + 1, forced, SendSpan(fb, y, span[1], span[2], FALSE, acc))

\* the row loop of a flush as the sequence of its intermediate points: the
\* start, and the point after every byte sent
FlushSteps(fb, bs, forced) == SendRows(fb, 0, forced, <<[out |-> <<>>, bs |-> bs]>>)

\* a deadline test that is one second late
RefreshDue_Late == refreshdisplay > 0 /\ now > nextrefresh + 1

RefreshDue == refreshdisplay > 0 /\ now > nextrefresh
KeepaliveDue == keepalivedisplay > 0 /\ now > nextkeepalive

Flush ==
    /\ alive
    /\ LET refreshNow == ~doneFirstRefresh \/ RefreshDue
           keepaliveNow == KeepaliveDue
           forced == refreshNow \/ keepaliveNow
           rows == FlushRows(framebuf, backingstore, 0, forced, <<>>)
       IN  /\ backingstore' = rows.bs
           /\ out' = rows.out \o FlushGlyphs(cc, 0)
           /\ device' = DeviceReads(device, rows.out \o FlushGlyphs(cc, 0), 1, 0, 0)
           /\ last' = Call("flush", last.op, 0, 0, "", 0, forced, ~flushed)
    /\ flushed' = TRUE
    /\ doneFirstRefresh' = TRUE
    /\ nextrefresh' = IF RefreshDue THEN now + refreshdisplay ELSE nextrefresh
    /\ nextkeepalive' = IF KeepaliveDue THEN now + keepalivedisplay ELSE nextkeepalive
    /\ cc' = MarkClean(cc)
    /\ UNCHANGED <<alive, width, height, framebuf, ccmode, backlight_state,
                   mem, now, refreshdisplay, keepalivedisplay>>

(***************************************************************************)
(* linuxDevLcd_set_char.                                                   *)
(***************************************************************************)
\* (1 << p->cellwidth) - 1
Mask == 2 ^ CellWidth - 1
\* dat[row] & mask, for a byte and a mask of low bits
AndMask(b) == b % (Mask + 1)

\* the value stored for row (0-based) of dat
Letter(dat, row) ==
    IF lastline \/ row < CellHeight - 1 THEN AndMask(dat[row + 1]) ELSE 0

\* a null dat
NoData == <<>>

\* a set_char that marks the slot dirty whatever it is handed
SetCharF_AlwaysDirty(ccv, n, dat) ==
    IF n < 0 \/ n >= NUM_CCs
    THEN ccv
    ELSE IF dat = NoData
    THEN ccv
    ELSE [ccv EXCEPT ![n] = [cache |-> [r \in 1..CellHeight |-> Letter(dat, r - 1)],
                             clean |-> FALSE]]

\* a set_char that stores the rows and leaves the flag as it is
SetCharF_NeverDirty(ccv, n, dat) ==
    IF n < 0 \/ n >= NUM_CCs
    THEN ccv
    ELSE IF dat = NoData
    THEN ccv
    ELSE [ccv EXCEPT ![n].cache = [r \in 1..CellHeight |-> Letter(dat, r - 1)]]

\* the glyph cache after linuxDevLcd_set_char(n, dat)
SetCharF(ccv, n, dat) ==
    IF n < 0 \/ n >= NUM_CCs
    THEN ccv
    ELSE IF dat = NoData
    THEN ccv
    ELSE LET new == [r \in 1..CellHeight |-> Letter(dat, r - 1)]
         IN  [ccv EXCEPT ![n] =
                [cache |-> new,
                 clean |-> IF \E r \in 1..CellHeight : ccv[n].cache[r] # new[r]
                           THEN FALSE ELSE ccv[n].clean]]

(***************************************************************************)
(* linuxDevLcd_icon.  The driver state the drawing primitives work on is   *)
(* the record d = [fb, cc, mode]; icon adds its return value.              *)
(***************************************************************************)
heart_open    == <<31, 21, 0, 0, 0, 17, 27, 31>>
heart_filled  == <<31, 21, 10, 14, 14, 21, 27, 31>>
arrow_up      == <<4, 14, 21, 4, 4, 4, 4, 0>>
arrow_down    == <<4, 4, 4, 4, 21, 14, 4, 0>>
checkbox_off  == <<0, 0, 31, 17, 17, 17, 31, 0>>
checkbox_on   == <<4, 4, 29, 22, 21, 17, 31, 0>>
checkbox_gray == <<0, 0, 31, 21, 27, 21, 31, 0>>
block_filled  == <<31, 31, 31, 31, 31, 31, 31, 31>>

\* the icons of the server core the driver names, and one it does not
Icons == {"ARROW_LEFT", "ARROW_RIGHT", "BLOCK_FILLED", "HEART_FILLED",
          "HEART_OPEN", "ARROW_UP", "ARROW_DOWN", "CHECKBOX_OFF",
          "CHECKBOX_ON", "CHECKBOX_GRAY", "ELLIPSIS"}

Ret(d, r) == [fb |-> d.fb, cc |-> d.cc, mode |-> d.mode, ret |-> r]

\* set_char(n, dat) followed by chr(x, y, n), returning 0
Place(d, x, y, n, dat) ==
    [fb |-> ChrF(d.fb, x, y, n), cc |-> SetCharF(d.cc, n, dat),
     mode |-> d.mode, ret |-> 0]

\* the last switch of linuxDevLcd_icon
OtherIcon(d, x, y, icon) ==
    CASE icon = "ARROW_UP"      -> Place(d, x, y, 1, arrow_up)
      [] icon = "ARROW_DOWN"    -> Place(d, x, y, 2, arrow_down)
      [] icon = "CHECKBOX_OFF"  -> Place(d, x, y, 3, checkbox_off)
      [] icon = "CHECKBOX_ON"   -> Place(d, x, y, 4, checkbox_on)
      [] icon = "CHECKBOX_GRAY" -> Place(d, x, y, 5, checkbox_gray)
      [] OTHER                  -> Ret(d, -1)

\* an icon that blocks the hearts in big-number mode only
IconF_HeartInVbar(d, x, y, icon) ==
    IF icon = "ARROW_LEFT"
    THEN Ret([d EXCEPT !.fb = ChrF(d.fb, x, y, ArrowLeftCode)], 0)
    ELSE IF icon = "ARROW_RIGHT"
    THEN Ret([d EXCEPT !.fb = ChrF(d.fb, x, y, ArrowRightCode)], 0)
    ELSE IF icon = "BLOCK_FILLED"
    THEN IF d.mode # "bignum" THEN Place(d, x, y, 0, block_filled) ELSE Ret(d, -1)
    ELSE IF icon = "HEART_FILLED" \/ icon = "HEART_OPEN"
    THEN IF d.mode # "bignum"
         THEN Place(d, x, y, 7, IF icon = "HEART_FILLED" THEN heart_filled ELSE heart_open)
         ELSE Ret(d, -1)
    ELSE IF d.mode # "icons"
    THEN IF d.mode # "standard"
         THEN Ret(d, -1)
         ELSE OtherIcon([d EXCEPT !.mode = "icons"], x, y, icon)
    ELSE OtherIcon(d, x, y, icon)

IconF(d, x, y, icon) ==
    IF icon = "ARROW_LEFT"
    THEN Ret([d EXCEPT !.fb = ChrF(d.fb, x, y, ArrowLeftCode)], 0)
    ELSE IF icon = "ARROW_RIGHT"
    THEN Ret([d EXCEPT !.fb = ChrF(d.fb, x, y, ArrowRightCode)], 0)
    ELSE IF icon = "BLOCK_FILLED"
    THEN IF d.mode # "bignum" THEN Place(d, x, y, 0, block_filled) ELSE Ret(d, -1)
    ELSE IF icon = "HEART_FILLED" \/ icon = "HEART_OPEN"
    THEN IF d.mode # "bignum" /\ d.mode # "vbar"
         THEN Place(d, x, y, 7, IF icon = "HEART_FILLED" THEN heart_filled ELSE heart_open)
         ELSE Ret(d, -1)
    ELSE IF d.mode # "icons"
    THEN IF d.mode # "standard"
         THEN Ret(d, -1)
         ELSE OtherIcon([d EXCEPT !.mode = "icons"], x, y, icon)
    ELSE OtherIcon(d, x, y, icon)

(***************************************************************************)
(* The shared bar and big-number helpers of the server (lcd_lib.c,         *)
(* adv_bignum.c).  They reach the driver only through its icon, chr and    *)
(* set_char entry points.                                                  *)
(***************************************************************************)
\* total_pixels = ((long) 2 * len * cell + 1) * promille / 2000
TotalPixels(len, promille, cell) == ((2 * len * cell + 1) * promille) \div 2000

\* the loop of lib_vbar_static (dx = 0, dy = -1) and of lib_hbar_static
\* (dx = 1, dy = 0) from position pos on
RECURSIVE LibBar(_, _, _, _, _, _, _, _, _)
LibBar(d, x, y, dx, dy, len, pos, total, cell) ==
    IF pos >= len
    THEN d
    ELSE LET pixels == total - cell * pos
         IN  IF pixels >= cell
             THEN LET r == IconF(d, x + dx * pos, y + dy * pos, "BLOCK_FILLED")
                  IN  LibBar([fb |-> r.fb, cc |-> r.cc, mode |-> r.mode],
                             x, y, dx, dy, len, pos + 1, total, cell)
             ELSE IF pixels > 0
             THEN [d EXCEPT !.fb = ChrF(d.fb, x + dx * pos, y + dy * pos, pixels)]
             ELSE LibBar(d, x, y, dx, dy, len, pos + 1, total, cell)

lib_vbar_static(d, x, y, len, promille, cell) ==
    LibBar(d, x, y, 0, -1, len, 0, TotalPixels(len, promille, cell), cell)

lib_hbar_static(d, x, y, len, promille, cell) ==
    LibBar(d, x, y, 1, 0, len, 0, TotalPixels(len, promille, cell), cell)

\* glyphs the two-line big numbers use with 8 free custom characters
BigNumGlyphs == 6
\* stand-ins for the glyph shapes and the digit table of adv_bignum.c
BigNumGlyph(i) == [r \in 1..CellHeight |-> i + 1]
BigNumCell(num, row, col) == (num + row + col) % BigNumGlyphs

RECURSIVE BigNumInit(_, _)
BigNumInit(ccv, i) ==
    IF i >= BigNumGlyphs THEN ccv
    ELSE BigNumInit(SetCharF(ccv, i, BigNumGlyph(i)), i + 1)

\* the digit is three cells wide, the colon (10) one; two rows from row 1
lib_adv_bignum(d, x, num, do_init) ==
    IF height < 2
    THEN d
    ELSE LET cc1 == IF do_init THEN BigNumInit(d.cc, 0) ELSE d.cc
             cols == IF num = 10 THEN 1 ELSE 3
             cell(i) == <<i % cols, i \div cols>>
             put[i \in 0..(2 * cols)] ==
                 IF i = 0 THEN d.fb
                 ELSE ChrF(put[i - 1], x + cell(i - 1)[1], 1 + cell(i - 1)[2],
                           BigNumCell(num, cell(i - 1)[2], cell(i - 1)[1]))
         IN  [fb |-> put[2 * cols], cc |-> cc1, mode |-> d.mode]

(***************************************************************************)
(* linuxDevLcd_vbar, linuxDevLcd_hbar, linuxDevLcd_num.                    *)
(***************************************************************************)
\* vBar after the i-th pass of the loop: vBar[cellheight - j] = 0xFF, j = 1..i
VBarDat(i) == [r \in 1..CellHeight |-> IF r - 1 >= CellHeight - i THEN 255 ELSE 0]

RECURSIVE VBarGlyphs(_, _)
VBarGlyphs(ccv, i) ==
    IF i >= CellHeight THEN ccv
    ELSE VBarGlyphs(SetCharF(ccv, i, VBarDat(i)), i + 1)

\* memset(hBar, 0xFF & ~((1 << (cellwidth - i)) - 1), sizeof(hBar))
HBarDat(i) == [r \in 1..CellHeight |-> 255 - (2 ^ (CellWidth - i) - 1)]

RECURSIVE HBarGlyphs(_, _)
HBarGlyphs(ccv, i) ==
    IF i > CellWidth THEN ccv
    ELSE HBarGlyphs(SetCharF(ccv, i, HBarDat(i)), i + 1)

\* a vbar that enters its mode from whatever mode is active
VbarF_NoModeCheck(d, x, y, len, promille) ==
    IF d.mode # "vbar"
    THEN lib_vbar_static([d EXCEPT !.mode = "vbar", !.cc = VBarGlyphs(d.cc, 1)],
                         x, y, len, promille, CellHeight)
    ELSE lib_vbar_static(d, x, y, len, promille, CellHeight)

VbarF(d, x, y, len, promille) ==
    IF d.mode # "vbar"
    THEN IF d.mode # "standard"
         THEN d
         ELSE lib_vbar_static([d EXCEPT !.mode = "vbar", !.cc = VBarGlyphs(d.cc, 1)],
                              x, y, len, promille, CellHeight)
    ELSE lib_vbar_static(d, x, y, len, promille, CellHeight)

\* an hbar that reprograms the glyphs although another mode is active
HbarF_NoModeCheck(d, x, y, len, promille) ==
    IF d.mode # "hbar"
    THEN lib_hbar_static([d EXCEPT !.mode = IF d.mode = "standard" THEN "hbar" ELSE d.mode,
                                   !.cc = HBarGlyphs(d.cc, 1)],
                         x, y, len, promille, CellWidth)
    ELSE lib_hbar_static(d, x, y, len, promille, CellWidth)

HbarF(d, x, y, len, promille) ==
    IF d.mode # "hbar"
    THEN IF d.mode # "standard"
         THEN d
         ELSE lib_hbar_static([d EXCEPT !.mode = "hbar", !.cc = HBarGlyphs(d.cc, 1)],
                              x, y, len, promille, CellWidth)
    ELSE lib_hbar_static(d, x, y, len, promille, CellWidth)

NumF(d, x, num) ==
    IF num < 0 \/ num > 10
    THEN d
    ELSE IF d.mode # "bignum"
    THEN IF d.mode # "standard"
         THEN d
         ELSE lib_adv_bignum([d EXCEPT !.mode = "bignum"], x, num, TRUE)
    ELSE lib_adv_bignum(d, x, num, FALSE)

(***************************************************************************)
(* The operations as actions.                                              *)
(***************************************************************************)
Driver == [fb |-> framebuf, cc |-> cc, mode |-> ccmode]

\* a drawing primitive stores its result; it writes nothing to the sink
Draw(d, call) ==
    /\ alive
    /\ framebuf' = d.fb
    /\ cc' = d.cc
    /\ ccmode' = d.mode
    /\ out' = <<>>
    /\ last' = call
    /\ UNCHANGED <<alive, width, height, backingstore, backlight_state, mem,
                   device, doneFirstRefresh, now, nextrefresh, refreshdisplay,
                   nextkeepalive, keepalivedisplay, flushed>>

Chr(x, y, c) ==
    Draw([Driver EXCEPT !.fb = ChrF(framebuf, x, y, c)],
         Plain("chr"))

Clear ==
    Draw([Driver EXCEPT !.fb = ClearF(framebuf), !.mode = "standard"],
         Plain("clear"))

Icon(x, y, icon) ==
    LET r == IconF(Driver, x, y, icon)
    IN  Draw(r, Call("icon", last.op, x, y, icon, r.ret, FALSE, FALSE))

Vbar(x, y, len, promille) ==
    Draw(VbarF(Driver, x, y, len, promille), Plain("vbar"))

Hbar(x, y, len, promille) ==
    Draw(HbarF(Driver, x, y, len, promille), Plain("hbar"))

Num(x, num) ==
    Draw(NumF(Driver, x, num), [Plain("num") EXCEPT !.y = num])

String(x, y, text) ==
    Draw([Driver EXCEPT !.fb = StringF(framebuf, x, y, text)],
         [Plain("string") EXCEPT !.x = x, !.y = y, !.dat = text])

\* linuxDevLcd_set_char called by the server core or a client
SetChar(n, dat) ==
    Draw([Driver EXCEPT !.cc = SetCharF(cc, n, dat)],
         [Plain("set_char") EXCEPT !.x = n, !.dat = dat])

\* "\e[L+" or "\e[L-"
BacklightSequence(on) == <<Cmd("backlight", IF on # 0 THEN 1 ELSE 0, 0, <<>>)>>

\* a backlight that writes the sequence on every call
BacklightOut_Always(state, on) == BacklightSequence(on)

\* what linuxDevLcd_backlight(on) writes with state cached
BacklightOut(state, on) == IF state # on THEN BacklightSequence(on) ELSE <<>>

Backlight(on) ==
    /\ alive
    /\ out' = BacklightOut(backlight_state, on)
    /\ backlight_state' = on
    /\ last' = [Plain("backlight") EXCEPT !.x = on]
    /\ UNCHANGED <<alive, width, height, framebuf, backingstore, cc, ccmode, mem,
                   device, doneFirstRefresh, now, nextrefresh, refreshdisplay,
                   nextkeepalive, keepalivedisplay, flushed>>

\* if (ptr != NULL) free(ptr)
Released(m) == IF m = "live" THEN "freed" ELSE IF m = "freed" THEN "twice" ELSE m

\* the frees of linuxDevLcd_close for private data that is not NULL
CloseMem(m) ==
    [m EXCEPT !.framebuf = Released(@), !.backingstore = Released(@), !.p = Released(@)]

\* linuxDevLcd_close: with private data, the buffers that are not NULL and
\* the private data are freed; the pointer to it is set to NULL
Close ==
    /\ mem' = IF alive THEN CloseMem(mem) ELSE mem
    /\ alive' = FALSE
    /\ out' = <<>>
    /\ last' = Plain("close")
    /\ UNCHANGED <<width, height, framebuf, backingstore, cc, ccmode,
                   backlight_state, device, doneFirstRefresh, now, nextrefresh, refreshdisplay,
                   nextkeepalive, keepalivedisplay, flushed>>

\* linuxDevLcd_init of the next instance, in the same process: the static
\* flag of flush keeps its value
ReInit ==
    /\ ~alive
    /\ \E size \in Sizes, r \in RefreshIntervals, k \in KeepaliveIntervals :
          InitDriver(size, r, k)
    /\ UNCHANGED <<doneFirstRefresh, now>>

\* where linuxDevLcd_init fails: malloc of the framebuffer, calloc of the
\* backing store, fopen of the device
InitFailures == {"framebuf", "backingstore", "open"}

\* what init holds when it fails at stage, before it returns or jumps
AcquiredBefore(stage) ==
    [p |-> "live",
     framebuf |-> IF stage = "framebuf" THEN "none" ELSE "live",
     backingstore |-> IF stage = "open" THEN "live" ELSE "none",
     fd |-> "none"]

\* linuxDevLcd_init failing at stage: the two allocation failures return
\* -1 as they are, the failure to open goes through linuxDevLcd_close
InitFail(stage) ==
    /\ ~alive
    /\ \E size \in Sizes, r \in RefreshIntervals, k \in KeepaliveIntervals :
          /\ width' = size[1]
          /\ height' = size[2]
          /\ framebuf' = IF stage = "framebuf" THEN <<>>
                         ELSE [i \in 0..(size[1] * size[2] - 1) |-> Space]
          /\ backingstore' = IF stage = "open"
                             THEN [i \in 0..(size[1] * size[2] - 1) |-> 0]
                             ELSE <<>>
          /\ refreshdisplay' = r
          /\ keepalivedisplay' = k
    /\ alive' = (stage # "open")
    /\ mem' = IF stage = "open" THEN CloseMem(AcquiredBefore(stage))
              ELSE AcquiredBefore(stage)
    /\ cc' = InitialCC
    /\ ccmode' = "standard"
    /\ backlight_state' = -1
    /\ nextrefresh' = 0
    /\ nextkeepalive' = 0
    /\ out' = <<>>
    /\ last' = Call("init", last.op, 0, 0, "", -1, FALSE, FALSE)
    /\ flushed' = FALSE
    /\ UNCHANGED <<device, doneFirstRefresh, now>>

\* a second of wall-clock time passes between two driver calls
Tick ==
    /\ now' = now + 1
    /\ UNCHANGED <<alive, width, height, framebuf, backingstore, cc, ccmode,
                   backlight_state, mem, device, doneFirstRefresh, nextrefresh,
                   refreshdisplay, nextkeepalive, keepalivedisplay, out, last,
                   flushed>>

(***************************************************************************)
(* The arguments the calls are made with.                                  *)
(***************************************************************************)
\* the 1-based cells of the display and one position off each border
Positions == {<<x, y>> : x \in 1..width, y \in 1..height}
                 \cup {<<0, 1>>, <<width + 1, 1>>, <<1, 0>>, <<1, height + 1>>}
\* the bytes chr is called with: the letter A and the escape byte
ChrBytes == {65, Esc}
\* where icons are placed: two corners and a position left of the border
IconPositions == {<<1, 1>>, <<width, height>>, <<0, 1>>}
\* <<len, promille>> of a bar: empty, a partial cell, full and partial, full
BarArgs == {<<1, 0>>, <<1, 500>>, <<2, 750>>, <<2, 1000>>}
\* big numbers: a digit, the colon, and two values that are out of range
NumArgs == {-1, 3, 10, 11}

(***************************************************************************)
(* Spec: the flush engine.  Characters, filled blocks, clear, flush, the   *)
(* clock, and close followed by a new init.                                *)
(***************************************************************************)
\* one more step of a run of at most MaxOps steps
Budget == nops < MaxOps /\ nops' = nops + 1

Next ==
    \/ Budget /\ \E p \in Positions, c \in ChrBytes : Chr(p[1], p[2], c)
    \/ Budget /\ \E p \in IconPositions : Icon(p[1], p[2], "BLOCK_FILLED")
    \/ Budget /\ Clear
    \/ Budget /\ Flush
    \/ Budget /\ Tick
    \/ Budget /\ alive /\ Close
    \/ Budget /\ ReInit

Spec == Init /\ [][Next]_vars

(***************************************************************************)
(* SpecMode: the rendering mode and the glyph slots.  Icons, bars, big     *)
(* numbers, clear and flush.                                               *)
(***************************************************************************)
BudgetMode == nops < MaxDraws /\ nops' = nops + 1

NextMode ==
    \/ BudgetMode /\ \E p \in IconPositions, i \in Icons : Icon(p[1], p[2], i)
    \/ BudgetMode /\ \E a \in BarArgs : Vbar(1, height, a[1], a[2])
    \/ BudgetMode /\ \E a \in BarArgs : Hbar(1, 1, a[1], a[2])
    \/ BudgetMode /\ \E n \in NumArgs : Num(1, n)
    \/ BudgetMode /\ SetChar(1, heart_open)
    \/ BudgetMode /\ Clear
    \/ BudgetMode /\ Flush

\* the default configuration: no forced refresh, no keep-alive
InitMode == Init /\ refreshdisplay = 0 /\ keepalivedisplay = 0

SpecMode == InitMode /\ [][NextMode]_vars

(***************************************************************************)
(* SpecBars: the icons that leave the mode standard, followed by bars.     *)
(* Hearts and filled blocks, vbar, hbar, clear and flush, under the        *)
(* default configuration.                                                  *)
(***************************************************************************)
\* the icons that are placed without a change of mode
StandardIcons == {"BLOCK_FILLED", "HEART_FILLED", "HEART_OPEN"}

NextBars ==
    \/ BudgetMode /\ \E p \in IconPositions, i \in StandardIcons : Icon(p[1], p[2], i)
    \/ BudgetMode /\ \E a \in BarArgs : Vbar(1, height, a[1], a[2])
    \/ BudgetMode /\ \E a \in BarArgs : Hbar(1, 1, a[1], a[2])
    \/ BudgetMode /\ Clear
    \/ BudgetMode /\ Flush

SpecBars == InitMode /\ [][NextBars]_vars

(***************************************************************************)
(* SpecGlyph: the glyph cache on its own.  set_char as the server core     *)
(* and its clients call it, and flush, under the default configuration.    *)
(***************************************************************************)
\* a pattern; the same with a bit set left of the cellwidth columns; one
\* that differs from it in a pixel of row 2; one that differs from it in
\* the last row only
pattern       == <<1, 2, 3, 4, 5, 6, 7, 0>>
pattern_wide  == <<33, 2, 3, 4, 5, 6, 7, 0>>
pattern_other == <<1, 2, 4, 4, 5, 6, 7, 0>>
pattern_under == <<1, 2, 3, 4, 5, 6, 7, 31>>
GlyphRows == {NoData, pattern, pattern_wide, pattern_other, pattern_under}
\* two slots, and the numbers next to the range 0..NUM_CCs-1
GlyphSlots == {-1, 2, 3, NUM_CCs}

BudgetGlyph == nops < MaxDefs /\ nops' = nops + 1

NextGlyph ==
    \/ BudgetGlyph /\ \E n \in GlyphSlots, dat \in GlyphRows : SetChar(n, dat)
    \/ BudgetGlyph /\ Flush

SpecGlyph == InitMode /\ [][NextGlyph]_vars

(***************************************************************************)
(* SpecText: text, the backlight and the modes together.  Strings,         *)
(* characters, the backlight, one icon of the character ROM and one of     *)
(* the glyph slots, one bar of each kind, one big number, clear and flush. *)
(***************************************************************************)
\* a text with the escape byte, and one longer than the display is wide
Texts == {<<66, Esc>>, <<65, 66, 67, 68>>}
\* the columns a string starts at: left of the border, the first and the
\* last column; the rows: above the display, the last row, below it
StringColumns == {-1, 1, width}
StringRows == {0, height, height + 1}
\* BACKLIGHT_OFF and BACKLIGHT_ON of the server core
BacklightValues == {0, 1}
TextIcons == {"ARROW_LEFT", "ARROW_UP"}

BudgetText == nops < MaxText /\ nops' = nops + 1

NextText ==
    \/ BudgetText /\ \E x \in StringColumns, y \in StringRows, t \in Texts : String(x, y, t)
    \/ BudgetText /\ \E c \in ChrBytes : Chr(1, 1, c)
    \/ BudgetText /\ \E on \in BacklightValues : Backlight(on)
    \/ BudgetText /\ \E i \in TextIcons : Icon(1, 1, i)
    \/ BudgetText /\ Vbar(1, height, 1, 500)
    \/ BudgetText /\ Hbar(1, 1, 1, 500)
    \/ BudgetText /\ Num(1, 3)
    \/ BudgetText /\ Clear
    \/ BudgetText /\ Flush

\* no keep-alive; every configured refresh interval
InitText == Init /\ keepalivedisplay = 0

SpecText == InitText /\ [][NextText]_vars

(***************************************************************************)
(* SpecLife: the life of a driver instance.  init that succeeds or fails,  *)
(* close of an instance that is initialised, partly initialised or         *)
(* closed, and characters and flush on an initialised one.                 *)
(***************************************************************************)
\* init has succeeded and close has not been called
Ready == alive /\ mem = Acquired

BudgetLife == nops < MaxLife /\ nops' = nops + 1

NextLife ==
    \/ BudgetLife /\ Ready /\ \E c \in ChrBytes : Chr(1, 1, c)
    \/ BudgetLife /\ Ready /\ Flush
    \/ BudgetLife /\ Close
    \/ BudgetLife /\ ReInit
    \/ BudgetLife /\ \E stage \in InitFailures : InitFail(stage)

SpecLife == Init /\ [][NextLife]_vars

(***************************************************************************)
(* What the sink receives, as the display reads it: a cursor-positioning   *)
(* command moves the cursor, a byte is shown at the cursor, which then     *)
(* moves one column right.                                                 *)
(***************************************************************************)
\* the writes <<column, row, byte>> of the commands o[k..], cursor at (cx, cy)
RECURSIVE Written(_, _, _, _)
Written(o, k, cx, cy) ==
    IF k > Len(o)
    THEN {}
    ELSE IF o[k].k = "pos"
    THEN Written(o, k + 1, o[k].a, o[k].b)
    ELSE IF o[k].k = "byte"
    THEN {<<cx, cy, o[k].a>>} \cup Written(o, k + 1, cx + 1, cy)
    ELSE Written(o, k + 1, cx, cy)

Writes(o) == Written(o, 1, 0, 0)
Count(o, kind) == Cardinality({k \in 1..Len(o) : o[k].k = kind})
\* the columns of row y (0-based) that o writes
SentColumns(o, y) == {w[1] : w \in {v \in Writes(o) : v[2] = y}}
\* the <<column, row>> the cursor-positioning commands of o address
RowStarts(o) == {<<o[k].a, o[k].b>> : k \in {j \in 1..Len(o) : o[j].k = "pos"}}

\* o sends every cell of every row once, each row from column 0
FullScreen(o, fb) ==
    /\ Writes(o) = {<<x, y, fb[y * width + x]>> : x \in 0..(width - 1), y \in 0..(height - 1)}
    /\ Count(o, "byte") = width * height
    /\ RowStarts(o) = {<<0, y>> : y \in 0..(height - 1)}
    /\ Count(o, "pos") = height

\* the columns of row y where framebuffer and backing store differ
DiffColumns(fb, bs, y) == {x \in 0..(width - 1) : fb[y * width + x] # bs[y * width + x]}
\* the inclusive range from the first to the last differing column
DiffSpan(fb, bs, y) ==
    LET D == DiffColumns(fb, bs, y)
    IN  IF D = {} THEN {}
        ELSE (CHOOSE a \in D : \A x \in D : a <= x) .. (CHOOSE b \in D : \A x \in D : x <= b)

\* the step is a call of op: a clock tick leaves `last' as it is, and
\* every call takes a step of the budget
Called(op) == last'.op = op /\ nops' # nops /\ now' = now

(***************************************************************************)
(* C1.  After every completed flush, forced or incremental, the backing    *)
(* store equals the framebuffer at every cell of the display.              *)
(***************************************************************************)
C1_BackingStoreEqualsFramebuf ==
    last.op = "flush" => \A i \in Cells : backingstore[i] = framebuf[i]

\* an incremental flush that sent a span shorter than the row, with other
\* cells of the display holding something else than a space
C1_Witness ==
    /\ last.op = "flush" /\ ~last.forced
    /\ Count(out, "byte") > 0 /\ Count(out, "byte") < width
    /\ \E i \in Cells : framebuf[i] # Space /\ backingstore[i] = framebuf[i]

(***************************************************************************)
(* C2.  Flush idempotence: with refreshdisplay = 0 and keepalivedisplay =  *)
(* 0, a flush that directly follows a flush (no driver call in between)    *)
(* writes nothing to the sink: no cursor position, no byte, no glyph.      *)
(***************************************************************************)
C2_SecondFlushSilent ==
    (/\ last.op = "flush" /\ last.prev = "flush"
     /\ refreshdisplay = 0 /\ keepalivedisplay = 0) => out = <<>>

\* the second of two flushes, the first of which had characters and a
\* glyph to send
C2_Witness ==
    /\ last.op = "flush" /\ last.prev = "flush"
    /\ refreshdisplay = 0 /\ keepalivedisplay = 0
    /\ \E i \in Cells : framebuf[i] = 65
    /\ cc[0].cache # ZeroGlyph
    /\ out = <<>>

(***************************************************************************)
(* C3.  Row diffing: in a flush that is not forced, the columns sent of    *)
(* each row are exactly the inclusive range from the first to the last     *)
(* column where framebuffer and backing store differ (none for a row       *)
(* without a difference), each sent once, with the framebuffer's byte,     *)
(* after one cursor-positioning command per row that has a difference.     *)
(***************************************************************************)
C3_RowDiff ==
    [][(Called("flush") /\ ~last'.forced) =>
         /\ \A y \in 0..(height - 1) :
               SentColumns(out', y) = DiffSpan(framebuf, backingstore, y)
         /\ \A w \in Writes(out') : w[3] = framebuf[w[2] * width + w[1]]
         /\ Count(out', "byte") =
               Cardinality({<<x, y>> \in (0..(width - 1)) \X (0..(height - 1)) :
                               x \in DiffSpan(framebuf, backingstore, y)})
         /\ Count(out', "pos") =
               Cardinality({y \in 0..(height - 1) : DiffColumns(framebuf, backingstore, y) # {}})
      ]_vars

\* an incremental flush of a display whose second row had changed at its
\* two ends only: the whole row is sent, the unchanged middle cell included
C3_Witness ==
    /\ last.op = "flush" /\ ~last.forced
    /\ out = <<linuxDevLcd_position(0, 1), PutByte(65), PutByte(Space), PutByte(65)>>

(***************************************************************************)
(* C4.  The first flush after init of every driver instance sends all      *)
(* width cells of every row from column 0, whatever the refresh settings   *)
(* and the contents of framebuffer and backing store.                      *)
(***************************************************************************)
C4_FirstFlushIsFull ==
    (last.op = "flush" /\ last.first) => FullScreen(out, framebuf)

(***************************************************************************)
(* C5.  Forced refresh.  As claimed: with refreshdisplay = N > 0, a flush  *)
(* made N or more seconds after the flush that scheduled the deadline      *)
(* sends every cell of every row and sets the deadline to now + N.         *)
(***************************************************************************)
C5_RefreshAtDeadline ==
    [][(Called("flush") /\ refreshdisplay > 0 /\ nextrefresh > 0 /\ now >= nextrefresh) =>
         (FullScreen(out', framebuf) /\ nextrefresh' = now + refreshdisplay)]_vars

\* C5 as amended: a flush made more than N seconds after the flush that
\* scheduled the deadline (now > deadline) sends every cell of every row
\* and sets the deadline to now + N.
C5_RefreshPastDeadline ==
    [][(Called("flush") /\ refreshdisplay > 0 /\ nextrefresh > 0 /\ now > nextrefresh) =>
         (FullScreen(out', framebuf) /\ nextrefresh' = now + refreshdisplay)]_vars

\* a flush that directly follows a flush of the same instance, so that
\* nothing differs, and is forced by the refresh deadline alone
C5_Witness ==
    /\ last.op = "flush" /\ last.prev = "flush" /\ ~last.first /\ last.forced
    /\ refreshdisplay > 0 /\ keepalivedisplay = 0
    /\ nextrefresh = now + refreshdisplay
    /\ FullScreen(out, framebuf)

(***************************************************************************)
(* Modes and cells, for the claims about single calls.                     *)
(***************************************************************************)
\* the mode a drawing primitive needs
TargetMode(op) == IF op = "vbar" THEN "vbar" ELSE IF op = "hbar" THEN "hbar" ELSE "bignum"
\* the 1-based (x, y) is a cell of the display
InRange(x, y) == x >= 1 /\ x <= width /\ y >= 1 /\ y <= height
CellOf(x, y) == (y - 1) * width + (x - 1)
\* the rows a glyph slot holds once dat is defined: cellwidth bits of each
\* row, the last row blank unless the last line is in use
Stored(dat) ==
    [r \in 1..CellHeight |->
        IF r = CellHeight /\ ~lastline THEN 0 ELSE dat[r] % (2 ^ CellWidth)]

(***************************************************************************)
(* C6.  Mode exclusivity: a vbar, hbar or num call made while another      *)
(* non-standard mode is active changes neither the mode, nor a cell of     *)
(* the framebuffer, nor the rows or the clean flag of a glyph slot.        *)
(***************************************************************************)
C6_OtherModeIsNoOp ==
    [][\A op \in {"vbar", "hbar", "num"} :
          (Called(op) /\ ccmode # "standard" /\ ccmode # TargetMode(op)) =>
              (ccmode' = ccmode /\ framebuf' = framebuf /\ cc' = cc)]_vars

\* hbar called in vertical-bar mode: the mode, the bar glyphs and the bar
\* drawn before are in place
C6_Witness ==
    /\ last.op = "hbar" /\ ccmode = "vbar"
    /\ cc[1].cache = Stored(VBarDat(1))
    /\ \E i \in Cells : framebuf[i] \in 1..(CellHeight - 1)

(***************************************************************************)
(* C7.  The rendering mode changes only from standard to a non-standard    *)
(* mode, by a drawing primitive, or from any mode to standard, by clear;   *)
(* never from one non-standard mode to another.                            *)
(***************************************************************************)
C7_ModeTransitions ==
    [][ccmode' # ccmode =>
          \/ ccmode = "standard" /\ last'.op \in {"vbar", "hbar", "num", "icon"}
          \/ ccmode' = "standard" /\ last'.op = "clear"]_vars

\* horizontal-bar mode entered after vertical-bar mode was left by clear:
\* slot 6, which only vbar programs, still holds its bar
C7_Witness ==
    /\ ccmode = "hbar" /\ last.op = "hbar"
    /\ cc[6].cache = Stored(VBarDat(6))
    /\ cc[5].cache = Stored(HBarDat(5))

(***************************************************************************)
(* C8.  Heart icons: in vertical-bar and big-number mode the call returns  *)
(* a negative value and changes neither framebuffer, glyph slot nor mode;  *)
(* in every other mode it returns 0, defines glyph slot 7 with the heart   *)
(* and stores 7 in the cell (x, y) when that is in range, leaving the      *)
(* mode as it was.                                                         *)
(***************************************************************************)
C8_HeartCompatibility ==
    [][(Called("icon") /\ last'.icon \in {"HEART_FILLED", "HEART_OPEN"}) =>
          IF ccmode \in {"vbar", "bignum"}
          THEN last'.ret < 0 /\ framebuf' = framebuf /\ cc' = cc /\ ccmode' = ccmode
          ELSE /\ last'.ret = 0
               /\ cc'[7].cache = Stored(IF last'.icon = "HEART_FILLED"
                                        THEN heart_filled ELSE heart_open)
               /\ \A i \in 0..(NUM_CCs - 2) : cc'[i] = cc[i]
               /\ InRange(last'.x, last'.y) => framebuf'[CellOf(last'.x, last'.y)] = 7
               /\ ccmode' = ccmode]_vars

\* a heart refused in vertical-bar mode, on a display that shows a heart
\* placed earlier in standard mode
C8_Witness ==
    /\ last.op = "icon" /\ last.icon = "HEART_FILLED" /\ last.ret < 0
    /\ ccmode = "vbar"
    /\ \E i \in Cells : framebuf[i] = 7

(***************************************************************************)
(* C9.  Arrow-left and arrow-right: in every mode, the call with (x, y)    *)
(* in range returns 0 and leaves the cell holding 0x1B for arrow-left and  *)
(* 0x1A for arrow-right, with no glyph slot and no mode changed.           *)
(***************************************************************************)
C9_ArrowCodePoints ==
    [][(Called("icon") /\ last'.icon \in {"ARROW_LEFT", "ARROW_RIGHT"}
          /\ InRange(last'.x, last'.y)) =>
          /\ last'.ret = 0
          /\ framebuf'[CellOf(last'.x, last'.y)] =
                (IF last'.icon = "ARROW_LEFT" THEN ArrowLeftCode ELSE ArrowRightCode)
          /\ cc' = cc /\ ccmode' = ccmode]_vars

(***************************************************************************)
(* C10.  An icon call that returns a negative value changes neither the    *)
(* rendering mode, nor the framebuffer, nor the glyph cache.               *)
(***************************************************************************)
C10_UnhandledIconIsNoOp ==
    [][(Called("icon") /\ last'.ret < 0) =>
          (ccmode' = ccmode /\ framebuf' = framebuf /\ cc' = cc)]_vars

(***************************************************************************)
(* Glyph definitions in what the sink receives.                            *)
(***************************************************************************)
\* the glyph-definition commands of o, in the order they were written
Glyphs(o) == SelectSeq(o, LAMBDA c : c.k = "glyph")
\* the slots o defines
GlyphSlotsOf(o) == {Glyphs(o)[k].a : k \in 1..Len(Glyphs(o))}
ValidSlot(n) == n >= 0 /\ n < NUM_CCs

(***************************************************************************)
(* C11.  Glyph dirtiness.  set_char with an out-of-range slot or with null *)
(* row data changes nothing.  Otherwise only slot n changes and it holds   *)
(* the rows as set_char computes them; a slot that was clean stays clean   *)
(* when these rows equal the cached rows and becomes dirty when a row      *)
(* differs.  The flush after a set_char that followed a flush (every slot  *)
(* was clean) defines slot n alone when it became dirty, with these rows,  *)
(* and no slot when it stayed clean.                                       *)
(***************************************************************************)
C11_GlyphDirtiness ==
    [][/\ Called("set_char") =>
            IF ~ValidSlot(last'.x) \/ last'.dat = NoData
            THEN cc' = cc /\ framebuf' = framebuf /\ ccmode' = ccmode
            ELSE /\ \A i \in 0..(NUM_CCs - 1) : i # last'.x => cc'[i] = cc[i]
                 /\ cc'[last'.x].cache = Stored(last'.dat)
                 /\ cc[last'.x].clean =>
                       (cc'[last'.x].clean <=> Stored(last'.dat) = cc[last'.x].cache)
       /\ (Called("flush") /\ last.op = "set_char" /\ last.prev = "flush") =>
            IF ValidSlot(last.x) /\ ~cc[last.x].clean
            THEN Glyphs(out') = <<DefineGlyph(last.x, Stored(last.dat))>>
            ELSE Glyphs(out') = <<>>
      ]_vars

\* slot 2, defined and flushed, is defined again with rows that differ in
\* a bit left of the cellwidth columns only, and is clean
C11_Witness ==
    /\ last.op = "set_char" /\ last.prev = "flush"
    /\ last.x = 2 /\ last.dat = pattern_wide
    /\ cc[2].cache = Stored(pattern) /\ cc[2].cache # ZeroGlyph
    /\ cc[2].clean

(***************************************************************************)
(* C13.  Backlight coalescing: backlight(v) writes one backlight sequence  *)
(* when v differs from the cached value and nothing when it is equal, and  *)
(* caches v; so the second of two backlight(v) calls in a row writes       *)
(* nothing, and the first backlight call after init (cached value -1)      *)
(* writes the sequence whatever v is.                                      *)
(***************************************************************************)
C13_BacklightCoalescing ==
    [][Called("backlight") =>
         /\ out' = (IF last'.x # backlight_state
                    THEN <<Cmd("backlight", IF last'.x # 0 THEN 1 ELSE 0, 0, <<>>)>>
                    ELSE <<>>)
         /\ backlight_state' = last'.x
         /\ backlight_state = -1 => Len(out') = 1
         /\ (last.op = "backlight" /\ last.x = last'.x) => out' = <<>>
      ]_vars

\* the second of two backlight(on) calls in a row: it wrote nothing
C13_Witness ==
    /\ last.op = "backlight" /\ last.prev = "backlight"
    /\ last.x = 1 /\ backlight_state = 1
    /\ out = <<>>

(***************************************************************************)
(* C14.  clear sets every cell of the framebuffer to a space and the mode  *)
(* to standard, in whatever state it is called, writes nothing to the      *)
(* sink and leaves the backing store, the rows and the clean flags of the  *)
(* glyph cache, the two deadlines and the cached backlight value as they   *)
(* were.  The call after a clear enters its mode: vbar vertical-bar mode,  *)
(* hbar horizontal-bar mode, num (0..10) big-number mode, an icon of the   *)
(* icon set icon mode.                                                     *)
(***************************************************************************)
C14_ClearFrame ==
    [][/\ Called("clear") =>
            /\ \A i \in Cells : framebuf'[i] = Space
            /\ ccmode' = "standard"
            /\ out' = <<>>
            /\ backingstore' = backingstore /\ cc' = cc
            /\ nextrefresh' = nextrefresh /\ nextkeepalive' = nextkeepalive
            /\ backlight_state' = backlight_state
       /\ last.op = "clear" =>
            /\ Called("vbar") => ccmode' = "vbar"
            /\ Called("hbar") => ccmode' = "hbar"
            /\ (Called("num") /\ last'.y \in 0..10) => ccmode' = "bignum"
            /\ (Called("icon") /\ last'.icon \in {"ARROW_UP", "ARROW_DOWN", "CHECKBOX_OFF",
                                                    "CHECKBOX_ON", "CHECKBOX_GRAY"})
                  => ccmode' = "icons"
      ]_vars

\* clear called in vertical-bar mode with the backlight on: the bar glyphs
\* are still in the cache, still to be sent
C14_Witness ==
    /\ last.op = "clear" /\ last.prev = "vbar"
    /\ ccmode = "standard" /\ backlight_state = 1
    /\ cc[2].cache = Stored(VBarDat(2)) /\ ~cc[2].clean
    /\ \A i \in Cells : framebuf[i] = Space

\* the byte stored for the byte c of a text
Sanitised(c) == IF c = Esc THEN Space ELSE c

(***************************************************************************)
(* C15.  string(x, y, text), coordinates 1-based: with y outside           *)
(* 1..height no cell changes.  Otherwise the cell at column c of row y     *)
(* holds character c - x of the text (0-based; a space for the escape      *)
(* byte) for every column c of 1..width that is x + i for an index i of    *)
(* the text, also when characters before it fell left of column 1, and     *)
(* every other cell, of row y and of the other rows, is unchanged; the     *)
(* characters that fall right of column width are dropped.                 *)
(***************************************************************************)
C15_StringPlacement ==
    [][Called("string") =>
         LET x == last'.x
             y == last'.y
             text == last'.dat
         IN  /\ (y < 1 \/ y > height) => framebuf' = framebuf
             /\ (y >= 1 /\ y <= height) =>
                   \A col \in 1..width, row \in 1..height :
                      framebuf'[CellOf(col, row)] =
                         (IF row = y /\ col - x \in 0..(Len(text) - 1)
                          THEN Sanitised(text[col - x + 1])
                          ELSE framebuf[CellOf(col, row)])
             /\ cc' = cc /\ ccmode' = ccmode /\ out' = <<>>
      ]_vars

\* a text of four characters placed from column -1 of the last row, over
\* a row that held something else: its third and fourth character are in
\* columns 1 and 2, column 3 is as it was
C15_Witness ==
    /\ last.op = "string" /\ last.x = -1 /\ last.y = height
    /\ last.dat = <<65, 66, 67, 68>>
    /\ framebuf[CellOf(1, height)] = 67
    /\ framebuf[CellOf(2, height)] = 68
    /\ framebuf[CellOf(3, height)] = 66

(***************************************************************************)
(* C16.  Escape sanitisation: string stores a space for every escape byte  *)
(* of its text that falls on the display, and after every drawing call     *)
(* (string, chr, icon, vbar, hbar, num, clear) and every flush no cell of  *)
(* the framebuffer holds the escape byte 0x1B and no byte the flush sent   *)
(* is the escape byte.                                                     *)
(***************************************************************************)
C16_NoEscapeStored ==
    [][/\ (Called("string") /\ last'.y >= 1 /\ last'.y <= height) =>
            \A i \in 0..(Len(last'.dat) - 1) :
               (last'.dat[i + 1] = Esc /\ InRange(last'.x + i, last'.y))
                  => framebuf'[CellOf(last'.x + i, last'.y)] = Space
       /\ \A i \in Cells : framebuf'[i] # Esc
       /\ \A k \in 1..Len(out') : out'[k].k = "byte" => out'[k].a # Esc
      ]_vars

\* the first flush after a text with the escape byte: the last row is sent
\* with the letter before the escape byte in column 1, where no other text
\* puts it, and a space in column 2
C16_Witness ==
    /\ last.op = "flush" /\ last.prev = "string" /\ last.first
    /\ FullScreen(out, framebuf)
    /\ framebuf[CellOf(1, height)] = 66
    /\ framebuf[CellOf(2, height)] = Space

(***************************************************************************)
(* C19.  Emission ordering within one flush.  For every row with a         *)
(* non-empty span (the whole row in a forced flush, else the first to the  *)
(* last differing column) one cursor-positioning command addressed to the  *)
(* first column of the span and the row, 0-based, is written, directly     *)
(* followed by the bytes of the span and by nothing else; the rows come    *)
(* top to bottom; and the backing-store cell is set as its byte is sent:   *)
(* after every byte the backing store is the one the flush started from    *)
(* with exactly the bytes sent so far written into it.                     *)
(***************************************************************************)
\* what o holds apart from glyph definitions
RowCommands(o) == SelectSeq(o, LAMBDA c : c.k # "glyph")
\* the smallest element of a non-empty set of numbers
Least(S) == CHOOSE a \in S : \A b \in S : a <= b

C19_EmissionOrder ==
    [][Called("flush") =>
         \* R, S and span name one value each
         \A R \in {RowCommands(out')},
            S \in {FlushSteps(framebuf, backingstore, last'.forced)},
            span \in {[y \in 0..(height - 1) |->
                         IF last'.forced THEN 0..(width - 1)
                         ELSE DiffSpan(framebuf, backingstore, y)]} :
             /\ \A j \in 1..Len(R) : R[j].k \in {"pos", "byte"}
             /\ R # <<>> => R[1].k = "pos"
             /\ {R[j].b : j \in {k \in 1..Len(R) : R[k].k = "pos"}}
                    = {y \in 0..(height - 1) : span[y] # {}}
             /\ \A j \in 1..Len(R) : R[j].k = "pos" =>
                   LET n == Cardinality(span[R[j].b])
                   IN  /\ R[j].a = Least(span[R[j].b])
                       /\ j + n <= Len(R)
                       /\ \A k \in (j + 1)..(j + n) :
                             R[k] = PutByte(framebuf[R[j].b * width + R[j].a + (k - j - 1)])
                       /\ j + n + 1 <= Len(R) =>
                             (R[j + n + 1].k = "pos" /\ R[j + n + 1].b > R[j].b)
             /\ Len(S) = Count(out', "byte") + 1
             /\ S[Len(S)].out = R /\ S[Len(S)].bs = backingstore'
             /\ \A k \in 1..Len(S) :
                   /\ Count(S[k].out, "byte") = k - 1
                   /\ S[k].out = SubSeq(R, 1, Len(S[k].out))
                   /\ \A x \in 0..(width - 1), y \in 0..(height - 1) :
                         S[k].bs[y * width + x] =
                            (IF \E w \in Writes(S[k].out) : w[1] = x /\ w[2] = y
                             THEN framebuf[y * width + x]
                             ELSE backingstore[y * width + x])
      ]_vars

\* a flush that sent both rows, the second with a text in it
C19_Witness ==
    /\ last.op = "flush" /\ last.prev = "string"
    /\ RowCommands(out) =
          <<linuxDevLcd_position(0, 0), PutByte(Space), PutByte(Space), PutByte(Space),
            linuxDevLcd_position(0, 1), PutByte(65), PutByte(66), PutByte(67)>>

(***************************************************************************)
(* C17.  Vertical-bar glyphs: after a vbar call made in standard mode,     *)
(* slot i, for every i of 1..cellheight-1, holds the rows cellheight-i ..  *)
(* cellheight-1 (0-based) with all cellwidth pixels set and the other rows *)
(* zero; a vbar call made in vertical-bar mode changes none of the slots   *)
(* 1..cellheight-1.                                                        *)
(***************************************************************************)
\* a bar i pixel rows high
BarOfHeight(i) == [r \in 1..CellHeight |-> IF r - 1 >= CellHeight - i THEN Mask ELSE 0]

C17_VbarGlyphs ==
    [][Called("vbar") =>
         /\ ccmode = "standard" =>
               \A i \in 1..(CellHeight - 1) : cc'[i].cache = BarOfHeight(i)
         /\ ccmode = "vbar" =>
               \A i \in 1..(CellHeight - 1) : cc'[i] = cc[i]
      ]_vars

(***************************************************************************)
(* C20.  Initialisation failure and teardown.  When init fails (the        *)
(* framebuffer or the backing store cannot be allocated, the sink cannot   *)
(* be opened) the private data, the framebuffer and the backing store are  *)
(* released, as far as they were acquired, when it returns.  close leaves  *)
(* framebuffer and backing store released, each once, also on a partly     *)
(* initialised instance, and a close of a closed instance changes nothing. *)
(***************************************************************************)
C20_FailureReleasesAll ==
    [][/\ (Called("init") /\ last'.ret < 0) =>
            \A b \in {"p", "framebuf", "backingstore"} : mem'[b] # "live"
       /\ Called("close") =>
            /\ \A b \in {"p", "framebuf", "backingstore"} : mem'[b] \in {"none", "freed"}
            /\ ~alive'
            /\ ~alive => mem' = mem
      ]_vars

(***************************************************************************)
(* C12.  The glyph cache is clean after init: every one of the 8 slots     *)
(* has clean = true, and a flush that directly follows init writes no      *)
(* glyph definition.                                                       *)
(***************************************************************************)
C12_CacheCleanAtInit ==
    /\ last.op = "init" => \A i \in 0..(NUM_CCs - 1) : cc[i].clean
    /\ (last.op = "flush" /\ last.prev = "init") => Glyphs(out) = <<>>

(***************************************************************************)
(* C18.  Glyph flush: a flush writes one glyph definition, with the slot   *)
(* number and the cellheight cached rows, for every slot that is dirty     *)
(* and none for a slot that is clean, in ascending order of the slots;     *)
(* after it every slot is clean, with its rows as they were.               *)
(***************************************************************************)
C18_GlyphFlush ==
    [][Called("flush") =>
         LET G == Glyphs(out')
         IN  /\ GlyphSlotsOf(out') = {i \in 0..(NUM_CCs - 1) : ~cc[i].clean}
             /\ \A k \in 1..Len(G) :
                   /\ G[k] = DefineGlyph(G[k].a, cc[G[k].a].cache)
                   /\ Len(G[k].rows) = CellHeight
                   /\ \A j \in 1..(k - 1) : G[j].a < G[k].a
             /\ \A i \in 0..(NUM_CCs - 1) :
                   cc'[i].clean /\ cc'[i].cache = cc[i].cache
      ]_vars

\* a flush of a cache in which slots 2 and 3 alone were dirty, and held
\* different rows
C18_Witness ==
    /\ last.op = "flush" /\ ~last.first
    /\ out = <<DefineGlyph(2, Stored(pattern)), DefineGlyph(3, Stored(pattern_other))>>

(***************************************************************************)
(* C21.  End-to-end display consistency: after every completed flush, of   *)
(* every driver instance, the character the display shows in a cell is the *)
(* byte the framebuffer holds for it, the glyph code 0 included.           *)
(***************************************************************************)
C21_DeviceShowsFramebuf ==
    last.op = "flush" => \A i \in Cells : device.screen[i] = framebuf[i]

(***************************************************************************)
(* C22.  Glyph cache coherence: in every state, the cached rows of a slot  *)
(* whose clean flag is set are the rows of the last definition of that     *)
(* slot written to the sink, which the display holds.                      *)
(***************************************************************************)
C22_CleanSlotsCoherent ==
    \A i \in 0..(NUM_CCs - 1) : cc[i].clean => device.cgram[i] = cc[i].cache

\* vbar called after a flush: slot 1, whose bar is blank, is still clean
\* and as the display holds it; slot 2 is dirty, the display holding the
\* rows of before
C22_Witness ==
    /\ last.op = "vbar" /\ last.prev = "flush"
    /\ cc[1].clean /\ device.cgram[1] = cc[1].cache
    /\ ~cc[2].clean /\ device.cgram[2] = ZeroGlyph /\ cc[2].cache # ZeroGlyph

(***************************************************************************)
(* C23.  Glyph slot ownership: a slot that holds the pattern of an icon    *)
(* (slot 0 the filled block, slot 7 a heart, slots 1..5 an arrow or a      *)
(* checkbox) and that a cell of the framebuffer shows keeps its rows in    *)
(* every vbar, hbar or num call.                                           *)
(***************************************************************************)
\* the patterns icon programs slot n with
IconPatterns(n) ==
    CASE n = 0 -> {block_filled}
      [] n = 1 -> {arrow_up}
      [] n = 2 -> {arrow_down}
      [] n = 3 -> {checkbox_off}
      [] n = 4 -> {checkbox_on}
      [] n = 5 -> {checkbox_gray}
      [] n = 7 -> {heart_open, heart_filled}
      [] OTHER -> {}

C23_IconSlotsKept ==
    [][(Called("vbar") \/ Called("hbar") \/ Called("num")) =>
         \A n \in 0..(NUM_CCs - 1) :
            (/\ \E dat \in IconPatterns(n) : cc[n].cache = Stored(dat)
             /\ \E i \in Cells : framebuf[i] = n)
               => cc'[n].cache = cc[n].cache
      ]_vars

=============================================================================
